---------------------------- MODULE Spec2Model ----------------------------
(***************************************************************************)
(* Model of pyhealthbox3: the Healthbox3 device client (healthbox3.py) and  *)
(* the telemetry model (models.py).                                         *)
(*                                                                          *)
(* Spec      the client as a state machine: one action per public coroutine *)
(*           of Healthbox3, each modelling the whole coroutine.             *)
(* SpecRoom  the pure room computations of models.py: Init draws a room     *)
(*           payload, the action reads one derived property.                *)
(***************************************************************************)
EXTENDS Integers, Sequences, FiniteSets, TLC

VARIABLES
    api_key,            \* "set" | "absent": whether __init__ assigned self._api_key
    session,            \* self._session: "none" | "caller" | "own"
    close_session,      \* self._close_session
    closed,             \* the sessions on which close() has been awaited
    advanced_features,  \* self._advanced_features
    data,               \* self._data: None before the first snapshot, else Some(snapshot)
    last,               \* the last call of the client: its arguments, its request() calls, its outcome
    room,               \* SpecRoom: the Healthbox3Room under test
    reading             \* SpecRoom: the last property read from room, None before

vars == <<api_key, session, close_session, closed, advanced_features, data, last, room, reading>>

clientVars == <<api_key, session, close_session, closed, advanced_features, data, last>>

(***************************************************************************)
(* Bounds of the model.                                                     *)
(***************************************************************************)
MaxSensors == 2

MaxActuators == 2

MaxRooms == 1

(***************************************************************************)
(* Python values: an optional value is None or Some(v); an evaluation       *)
(* either returns a value or raises.                                        *)
(***************************************************************************)
None == << >>

Some(v) == <<v>>

Ret(v) == [exc |-> "none", val |-> v]

Raise(e) == [exc |-> e, val |-> None]

InSeq(x, s) == \E i \in DOMAIN s : s[i] = x

\* Python's `a in b` on strings. Type names are spelled as their sequence of
\* words; for the names below, containment as a substring is containment as a
\* run of consecutive words.
IsSubstring(a, b) ==
    \E i \in 0..(Len(b) - Len(a)) : SubSeq(b, i + 1, i + Len(a)) = a

(***************************************************************************)
(* models.py: Healthbox3Room                                                *)
(***************************************************************************)
IndoorTemperature == <<"indoor", "temperature">>

IndoorHumidity == <<"indoor", "relative", "humidity">>

IndoorCO2 == <<"indoor", "CO2">>

IndoorAqi == <<"indoor", "air", "quality", "index">>

IndoorVoc == <<"indoor", "volatile", "organic", "compounds">>

\* sensor_type_keys of _get_sensor_value
SensorTypeKeys(sensor_type) ==
    CASE sensor_type = IndoorVoc -> "concentration"
      [] sensor_type = IndoorAqi -> "index"
      [] sensor_type = IndoorCO2 -> "concentration"
      [] sensor_type = IndoorHumidity -> "humidity"
      [] sensor_type = IndoorTemperature -> "temperature"

\* self.enabled_sensors = [sensor["type"] for sensor in self.sensors_data]
EnabledSensors(sensors_data) ==
    [i \in DOMAIN sensors_data |-> sensors_data[i].type]

\* Healthbox3Room.__init__
Healthbox3Room(room_data, advanced) ==
    [advanced_features |-> advanced,
     sensors_data |-> room_data.sensor,
     enabled_sensors |-> EnabledSensors(room_data.sensor),
     parameters |-> room_data.parameter,
     actuator |-> room_data.actuator]

\* _validate_sensor
ValidateSensor(sensor, sensor_key) ==
    IF sensor.has_parameter
    THEN sensor_key \in DOMAIN sensor.parameter
    ELSE FALSE

GetSensorValueLastOfType(sensors_data, sensor_type) ==
    LET matches == SelectSeq(sensors_data, LAMBDA s : s.type = sensor_type)
    IN  IF Len(matches) = 0
        THEN Raise("IndexError")
        ELSE LET sensor == matches[Len(matches)]
                 sensor_key == SensorTypeKeys(sensor_type)
             IN  IF ValidateSensor(sensor, sensor_key)
                 THEN Ret(Some(sensor.parameter[sensor_key]))
                 ELSE Ret(None)

\* _get_sensor_value
GetSensorValue(sensors_data, sensor_type) ==
    LET matches == SelectSeq(sensors_data, LAMBDA s : IsSubstring(sensor_type, s.type))
    IN  IF Len(matches) = 0
        THEN Raise("IndexError")
        ELSE LET sensor == matches[1]
                 sensor_key == SensorTypeKeys(sensor_type)
             IN  IF ValidateSensor(sensor, sensor_key)
                 THEN Ret(Some(sensor.parameter[sensor_key]))
                 ELSE Ret(None)

SensorEnabledUngated(advanced, enabled_sensors, sensor_type) ==
    InSeq(sensor_type, enabled_sensors)

\* the guard shared by the six indoor properties:
\* self._advanced_features and sensor_type in self.enabled_sensors
SensorEnabled(advanced, enabled_sensors, sensor_type) ==
    advanced /\ InSeq(sensor_type, enabled_sensors)

\* indoor_temperature, indoor_humidity, indoor_co2_concentration, indoor_aqi,
\* indoor_voc_ppm: the same body for five sensor types
IndoorProperty(r, sensor_type) ==
    IF SensorEnabled(r.advanced_features, r.enabled_sensors, sensor_type)
    THEN GetSensorValue(r.sensors_data, sensor_type)
    ELSE Ret(None)

\* indoor_voc_microg_per_cubic
IndoorVocMicrogPerCubic(r) ==
    LET mgpc == IndoorProperty(r, IndoorVoc)
    IN  IF mgpc.exc = "none" /\ mgpc.val # None /\ mgpc.val[1] # 0
        THEN Ret(Some(mgpc.val[1] * 1000))
        ELSE mgpc

Abs(n) == IF n < 0 THEN -n ELSE n

RECURSIVE Gcd(_, _)
Gcd(a, b) == IF b = 0 THEN a ELSE Gcd(b, a % b)

\* Python's a / b for b # 0, as the fraction in lowest terms with a positive
\* denominator (the float's rounding is not modelled)
TrueDiv(a, b) ==
    LET g == Gcd(Abs(a), Abs(b))
        s == IF b < 0 THEN -1 ELSE 1
    IN  [num |-> (s * a) \div g, den |-> (s * b) \div g]

GetAirflowVentilationRateLastValve(parameters, actuator) ==
    IF parameters.nominal = None
    THEN Ret(None)
    ELSE LET nominal == parameters.nominal[1]
             offset == IF parameters.offset = None THEN 0 ELSE parameters.offset[1]
             flow_rate_sensors == SelectSeq(actuator, LAMBDA x : x.type = "air valve")
         IN  IF Len(flow_rate_sensors) = 0
             THEN Ret(None)
             ELSE IF flow_rate_sensors[Len(flow_rate_sensors)].flow_rate = None
             THEN Ret(None)
             ELSE IF nominal + offset = 0
             THEN Raise("ZeroDivisionError")
             ELSE Ret(Some(TrueDiv(flow_rate_sensors[Len(flow_rate_sensors)].flow_rate[1],
                                   nominal + offset)))

\* _get_airflow_ventilation_rate. A missing "parameter", "flow_rate" or "value"
\* of an actuator raises the same KeyError: flow_rate = None stands for the three.
GetAirflowVentilationRate(parameters, actuator) ==
    IF parameters.nominal = None
    THEN Ret(None)
    ELSE LET nominal == parameters.nominal[1]
             offset == IF parameters.offset = None THEN 0 ELSE parameters.offset[1]
             flow_rate_sensors == SelectSeq(actuator, LAMBDA x : x.type = "air valve")
         IN  IF Len(flow_rate_sensors) = 0
             THEN Ret(None)
             ELSE IF flow_rate_sensors[1].flow_rate = None
             THEN Ret(None)
             ELSE IF nominal + offset = 0
             THEN Raise("ZeroDivisionError")
             ELSE Ret(Some(TrueDiv(flow_rate_sensors[1].flow_rate[1], nominal + offset)))

\* airflow_ventilation_rate
AirflowVentilationRate(r) == GetAirflowVentilationRate(r.parameters, r.actuator)

IndoorProps ==
    {"indoor_temperature", "indoor_humidity", "indoor_co2_concentration",
     "indoor_aqi", "indoor_voc_ppm"}

Props == IndoorProps \cup {"indoor_voc_microg_per_cubic", "airflow_ventilation_rate"}

\* sensor_type of each indoor property
SensorTypeOf(prop) ==
    CASE prop = "indoor_temperature" -> IndoorTemperature
      [] prop = "indoor_humidity" -> IndoorHumidity
      [] prop = "indoor_co2_concentration" -> IndoorCO2
      [] prop = "indoor_aqi" -> IndoorAqi
      [] prop = "indoor_voc_ppm" -> IndoorVoc
      [] prop = "indoor_voc_microg_per_cubic" -> IndoorVoc

\* reading property prop of room r
ReadProperty(r, prop) ==
    CASE prop \in IndoorProps -> IndoorProperty(r, SensorTypeOf(prop))
      [] prop = "indoor_voc_microg_per_cubic" -> IndoorVocMicrogPerCubic(r)
      [] prop = "airflow_ventilation_rate" -> AirflowVentilationRate(r)

(***************************************************************************)
(* Room payloads.                                                           *)
(***************************************************************************)
\* a type name of the device that contains "indoor temperature"
IndoorTemperatureSetpoint == <<"indoor", "temperature", "setpoint">>

SensorTypes ==
    {IndoorTemperature, IndoorHumidity, IndoorCO2, IndoorAqi, IndoorVoc,
     IndoorTemperatureSetpoint}

ParameterKeys == {"temperature", "humidity", "concentration", "index"}

EmptyMap == [k \in {} |-> 0]

\* the key under which the device reports the value of a sensor of type t
ReportedKey(t) ==
    IF t = IndoorTemperatureSetpoint THEN "temperature" ELSE SensorTypeKeys(t)

\* a sensor record: no "parameter" at all, an empty parameter map, or a map of
\* one key (any key with the value 21, the type's own key also with 0)
SensorRecords ==
    {[type |-> t, has_parameter |-> FALSE, parameter |-> EmptyMap] : t \in SensorTypes}
    \cup {[type |-> t, has_parameter |-> TRUE, parameter |-> EmptyMap] : t \in SensorTypes}
    \cup {[type |-> t, has_parameter |-> TRUE, parameter |-> [k \in {key} |-> 21]] :
            t \in SensorTypes, key \in ParameterKeys}
    \cup {[type |-> t, has_parameter |-> TRUE, parameter |-> [k \in {ReportedKey(t)} |-> 0]] :
            t \in SensorTypes}

SeqsUpTo(S, n) == UNION {[1..k -> S] : k \in 0..n}

Optional(S) == {None} \cup {Some(v) : v \in S}

ParameterMaps == [nominal : Optional({0, 2}), offset : Optional({1, -2})]

ActuatorRecords == [type : {"air valve", "fan"}, flow_rate : Optional({3, 6})]

BaseParameter == [nominal |-> Some(2), offset |-> Some(1)]

BaseActuator == <<[type |-> "air valve", flow_rate |-> Some(6)]>>

\* the payloads a room is built from: every sensor list up to MaxSensors with
\* the base parameters and actuators, and every parameter map and actuator
\* list up to MaxActuators with no sensors (the two computations read
\* disjoint fields)
RoomData ==
    {[sensor |-> s, parameter |-> BaseParameter, actuator |-> BaseActuator] :
        s \in SeqsUpTo(SensorRecords, MaxSensors)}
    \cup {[sensor |-> << >>, parameter |-> p, actuator |-> a] :
        p \in ParameterMaps, a \in SeqsUpTo(ActuatorRecords, MaxActuators)}

(***************************************************************************)
(* healthbox3.py: the transport under request()                             *)
(***************************************************************************)
\* what awaiting self._session.request(...) under the timeout can produce
Timeout == [kind |-> "timeout", status |-> 0, body |-> "none"]

TransportError == [kind |-> "ClientError", status |-> 0, body |-> "none"]

Response(status, body) == [kind |-> "response", status |-> status, body |-> body]

Statuses == {200, 304, 401, 403, 404, 500}

\* every outcome, for a direct request(): a response of every status with a
\* JSON body, and the statuses that are no error with a body that is no JSON
Outcomes ==
    {Timeout, TransportError}
    \cup {Response(st, "json") : st \in Statuses}
    \cup {Response(200, "malformed"), Response(304, "malformed")}

\* the outcomes drawn for the requests of the composite calls
CallOutcomes ==
    {Response(200, "json"), Response(200, "malformed"), Response(401, "json"), Timeout}

FetchOutcomes == {Response(200, "json"), Timeout}

AuthenticationError == "Healthbox3ApiClientAuthenticationError"

CommunicationError == "Healthbox3ApiClientCommunicationError"

ApiClientError == "Healthbox3ApiClientError"

CurrentEp == "/v2/api/data/current"

ErrorEp == "/v2/device/error"

GlobalEp == "/renson_core/v2/global"

WifiEp == "/renson_core/v1/wifi/client/status"

BoostEp == "/v2/api/boost/{room_id}"

ApiKeyEp == "/v2/api/api_key"

StatusEp == "/v2/api/api_key/status"

\* request(), lines 259-261: a missing session is created and owned
NewSession(sess) == IF sess = "none" THEN "own" ELSE sess

NewCloseSession(sess, flag) == IF sess = "none" THEN TRUE ELSE flag

\* request(), lines 267-293: the exception that leaves request() for a
\* transport outcome, "none" when it returns the body.
\* raise_for_status() raises ClientResponseError for a status >= 400, which
\* line 290 wraps; response.json() raises json.JSONDecodeError, which is no
\* ClientError, for a body that is no JSON.
RequestExc(o, expect_json_error) ==
    CASE o.kind = "timeout" -> CommunicationError
      [] o.kind = "ClientError" -> ApiClientError
      [] OTHER ->
            IF o.status \in {401, 403} THEN AuthenticationError
            ELSE IF o.status >= 400 THEN ApiClientError
            ELSE IF expect_json_error THEN "none"
            ELSE IF o.body = "json" THEN "none"
            ELSE "JSONDecodeError"

\* one call of request() in the current state: the session it uses, whether
\* the HTTP request was sent, and what request() raised. A ClientSession that
\* has been closed raises RuntimeError("Session is closed") before sending.
\* state is the "state" field of the body of a successful status check.
DoRequest(method, endpoint, room_id, o, expect_json_error, state) ==
    LET sess == NewSession(session)
        sent == sess \notin closed
        exc == IF sent THEN RequestExc(o, expect_json_error) ELSE "RuntimeError"
    IN  [method |-> method, endpoint |-> endpoint, room_id |-> room_id,
         sent |-> sent, exc |-> exc, outcome |-> o,
         expect_json_error |-> expect_json_error,
         state |-> IF exc = "none" THEN state ELSE ""]

CloseSessionsAlways(sess, flag, cl) ==
    IF sess # "none" THEN cl \cup {sess} ELSE cl

\* close(), lines 298-299: the sessions closed after close()
CloseSessions(sess, flag, cl) ==
    IF sess # "none" /\ flag THEN cl \cup {sess} ELSE cl

LastCall(op, arg, exc, calls) == [op |-> op, arg |-> arg, exc |-> exc, calls |-> calls]

\* the session fields after a call that made at least one request()
SessionUsed ==
    /\ session' = NewSession(session)
    /\ close_session' = NewCloseSession(session, close_session)

(***************************************************************************)
(* request(), called directly                                               *)
(***************************************************************************)
Request(method, endpoint, o, expect_json_error) ==
    LET c == DoRequest(method, endpoint, 0, o, expect_json_error, "")
    IN  /\ SessionUsed
        /\ last' = LastCall("request", FALSE, c.exc, <<c>>)
        /\ UNCHANGED <<api_key, closed, advanced_features, data, room, reading>>

(***************************************************************************)
(* close()                                                                  *)
(***************************************************************************)
Close ==
    /\ closed' = CloseSessions(session, close_session, closed)
    /\ last' = LastCall("close", FALSE, "none", << >>)
    /\ UNCHANGED <<api_key, session, close_session, advanced_features, data, room, reading>>

(***************************************************************************)
(* async_start_room_boost, async_stop_room_boost, async_validate_connectivity *)
(* and async_get_room_boost_data: one request() each                        *)
(***************************************************************************)
AsyncStartRoomBoost(room_id, o) ==
    LET c == DoRequest("PUT", BoostEp, room_id, o, FALSE, "")
    IN  /\ SessionUsed
        /\ last' = LastCall("async_start_room_boost", FALSE, c.exc, <<c>>)
        /\ UNCHANGED <<api_key, closed, advanced_features, data, room, reading>>

AsyncStopRoomBoost(room_id, o) ==
    LET c == DoRequest("PUT", BoostEp, room_id, o, FALSE, "")
    IN  /\ SessionUsed
        /\ last' = LastCall("async_stop_room_boost", FALSE, c.exc, <<c>>)
        /\ UNCHANGED <<api_key, closed, advanced_features, data, room, reading>>

AsyncValidateConnectivity(o) ==
    LET c == DoRequest("GET", CurrentEp, 0, o, FALSE, "")
    IN  /\ SessionUsed
        /\ last' = LastCall("async_validate_connectivity", FALSE, c.exc, <<c>>)
        /\ UNCHANGED <<api_key, closed, advanced_features, data, room, reading>>

\* Healthbox3RoomBoost(): the default boost
DefaultBoost == [level |-> None, enabled |-> FALSE, remaining |-> None]

\* the boost a well-formed body of GET /v2/api/boost/{room_id} describes
ReportedBoost == [level |-> Some(200), enabled |-> TRUE, remaining |-> Some(900)]

\* async_get_room_boost_data, lines 128-134: the bare except turns a failed
\* request and a body without "level", "enable" or "remaining" into the default
RoomBoostOf(c, has_keys) ==
    IF c.exc = "none" /\ has_keys THEN ReportedBoost ELSE DefaultBoost

AsyncGetRoomBoostData(room_id, o, has_keys) ==
    LET c == DoRequest("GET", BoostEp, room_id, o, FALSE, "")
    IN  /\ SessionUsed
        /\ last' = LastCall("async_get_room_boost_data", RoomBoostOf(c, has_keys), "none", <<c>>)
        /\ UNCHANGED <<api_key, closed, advanced_features, data, room, reading>>

(***************************************************************************)
(* async_enable_advanced_api_features and                                   *)
(* _async_validate_advanced_api_features                                    *)
(***************************************************************************)
ValidateFlagAssign(flag, state) == state = "valid"

\* _async_validate_advanced_api_features, lines 251-255: the flag after a
\* status check that reported state
ValidateFlag(flag, state) == IF state # "valid" THEN flag ELSE TRUE

\* _async_validate_advanced_api_features, lines 251-255: its return value
ValidateResult(state) == state = "valid"

NeverAlreadyValid(pre_validation, c) == FALSE

\* lines 218-221: already_valid, where c is the pre-validation's request()
AlreadyValid(pre_validation, c) ==
    pre_validation /\ c.exc = "none" /\ ValidateResult(c.state)

EnableCloseSkipped(sess, flag, cl) == cl

\* line 232: await self.close() before the authentication error
EnableClose(sess, flag, cl) == CloseSessions(sess, flag, cl)

\* async_enable_advanced_api_features with an API key, lines 218-235:
\* the exception that leaves it, its request() calls, the flag and the closed
\* sessions after it. o1/s1: the pre-validation's outcome and reported state,
\* o2: the POST's outcome, o3/s3: the re-validation's.
Enable(pre_validation, o1, s1, o2, o3, s3) ==
    LET c1 == DoRequest("GET", StatusEp, 0, o1, FALSE, s1)
        calls1 == IF pre_validation THEN <<c1>> ELSE << >>
        flag1 == IF pre_validation /\ c1.exc = "none"
                 THEN ValidateFlag(advanced_features, c1.state)
                 ELSE advanced_features
        c2 == DoRequest("POST", ApiKeyEp, 0, o2, TRUE, "")
        c3 == DoRequest("GET", StatusEp, 0, o3, FALSE, s3)
        sess == NewSession(session)
        flag == NewCloseSession(session, close_session)
    IN  IF pre_validation /\ c1.exc # "none"
        THEN [exc |-> c1.exc, calls |-> calls1, advanced |-> flag1, closed |-> closed]
        ELSE IF AlreadyValid(pre_validation, c1)
        THEN [exc |-> "none", calls |-> calls1, advanced |-> flag1, closed |-> closed]
        ELSE IF c2.exc # "none"
        THEN [exc |-> c2.exc, calls |-> Append(calls1, c2), advanced |-> flag1,
              closed |-> closed]
        ELSE IF c3.exc # "none"
        THEN [exc |-> c3.exc, calls |-> calls1 \o <<c2, c3>>, advanced |-> flag1,
              closed |-> closed]
        ELSE IF ~ValidateResult(c3.state)
        THEN [exc |-> AuthenticationError, calls |-> calls1 \o <<c2, c3>>,
              advanced |-> ValidateFlag(flag1, c3.state),
              closed |-> EnableClose(sess, flag, closed)]
        ELSE [exc |-> "none", calls |-> calls1 \o <<c2, c3>>,
              advanced |-> ValidateFlag(flag1, c3.state), closed |-> closed]

StatusStates == {"valid", "invalid"}

\* line 217 reads self._api_key, which __init__ assigns only for a truthy
\* api_key (lines 30-31) and the class does not declare: without a key the
\* read raises AttributeError and line 237 is never reached
AsyncEnableAdvancedApiFeatures(pre_validation, o1, s1, o2, o3, s3) ==
    IF api_key = "absent"
    THEN /\ last' = LastCall("async_enable_advanced_api_features", pre_validation,
                             "AttributeError", << >>)
         /\ UNCHANGED <<api_key, session, close_session, closed, advanced_features,
                        data, room, reading>>
    ELSE LET r == Enable(pre_validation, o1, s1, o2, o3, s3)
         IN  /\ SessionUsed
             /\ closed' = r.closed
             /\ advanced_features' = r.advanced
             /\ last' = LastCall("async_enable_advanced_api_features", pre_validation,
                                 r.exc, r.calls)
             /\ UNCHANGED <<api_key, data, room, reading>>

(***************************************************************************)
(* async_get_data and its enrichment calls                                  *)
(***************************************************************************)
\* Healthbox3DataObject.__init__: the snapshot built from the rooms of the
\* payload. The class declares no error_count, firmware_version or wifi:
\* each is None here while the attribute does not exist.
Healthbox3DataObject(rooms_data, advanced) ==
    [advanced_features |-> advanced,
     error_count |-> None,
     firmware_version |-> None,
     wifi |-> None,
     rooms |-> [i \in DOMAIN rooms_data |->
                    [room_id |-> i,
                     obj |-> Healthbox3Room(rooms_data[i], advanced),
                     boost |-> DefaultBoost]]]

\* reading an attribute of self._data in a finally block (lines 148, 164,
\* 187): AttributeError when it was never assigned
ReadAttribute(attr) == IF attr = None THEN "AttributeError" ELSE "none"

\* _async_get_errors, lines 138-148: error_count after it and the exception
\* that leaves it; n is the length of the error list of a successful body
GetErrors(d, c, n) ==
    LET d1 == IF c.exc = "none" THEN [d EXCEPT !.error_count = Some(n)] ELSE d
    IN  [data |-> d1, exc |-> ReadAttribute(d1.error_count)]

\* _async_get_global_core_data, lines 152-164; has_fw: the body has a
\* "firmware version"
GetGlobalCoreData(d, c, has_fw) ==
    LET d1 == IF c.exc = "none" /\ has_fw
              THEN [d EXCEPT !.firmware_version = Some("firmware")]
              ELSE d
    IN  [data |-> d1, exc |-> ReadAttribute(d1.firmware_version)]

\* the Healthbox3WIFIConnectionDataObject that lines 174-179 fill from a body;
\* healthbox3.py imports the class, models.py does not define it
WifiDataObject ==
    [status |-> Some("connected"), internet_connection |-> Some(TRUE),
     ssid |-> Some("ssid"), connection_error |-> None]

\* _async_get_wifi_status, lines 168-190
GetWifiStatus(d, c) ==
    LET d1 == IF c.exc = "none" THEN [d EXCEPT !.wifi = Some(WifiDataObject)] ELSE d
    IN  [data |-> d1, exc |-> ReadAttribute(d1.wifi)]

\* lines 95-101: the order in which the debug lines read the properties
LogOrder ==
    <<"airflow_ventilation_rate", "indoor_aqi", "indoor_co2_concentration",
      "indoor_humidity", "indoor_temperature", "indoor_voc_ppm",
      "indoor_voc_microg_per_cubic">>

\* the exception of the first property of LogOrder that raises for room r
LogRoom(r) ==
    LET raising == {i \in DOMAIN LogOrder : ReadProperty(r, LogOrder[i]).exc # "none"}
    IN  IF raising = {}
        THEN "none"
        ELSE ReadProperty(r, LogOrder[CHOOSE i \in raising : \A j \in raising : i <= j]).exc

\* lines 93-103: the loop over the rooms from room i on; boosts[i] is the
\* outcome of room i's boost request and whether its body has the keys
RECURSIVE RoomsLoop(_, _, _, _)
RoomsLoop(d, i, boosts, calls) ==
    IF i > Len(d.rooms)
    THEN [exc |-> "none", data |-> d, calls |-> calls]
    ELSE LET logged == LogRoom(d.rooms[i].obj)
             c == DoRequest("GET", BoostEp, d.rooms[i].room_id, boosts[i].o, FALSE, "")
         IN  IF logged # "none"
             THEN [exc |-> logged, data |-> d, calls |-> calls]
             ELSE RoomsLoop([d EXCEPT !.rooms[i].boost = RoomBoostOf(c, boosts[i].has_keys)],
                            i + 1, boosts, Append(calls, c))

\* async_get_data, lines 85-104: the exception that leaves it, its request()
\* calls and self._data after it
GetData(o0, rooms_data, oe, n, og, has_fw, ow, boosts) ==
    LET c0 == DoRequest("GET", CurrentEp, 0, o0, FALSE, "")
        d0 == Healthbox3DataObject(rooms_data, advanced_features)
        ce == DoRequest("GET", ErrorEp, 0, oe, FALSE, "")
        e == GetErrors(d0, ce, n)
        cg == DoRequest("GET", GlobalEp, 0, og, FALSE, "")
        g == GetGlobalCoreData(e.data, cg, has_fw)
        cw == DoRequest("GET", WifiEp, 0, ow, FALSE, "")
        w == GetWifiStatus(g.data, cw)
    IN  IF c0.exc # "none"
        THEN [exc |-> c0.exc, calls |-> <<c0>>, data |-> data]
        ELSE IF e.exc # "none"
        THEN [exc |-> e.exc, calls |-> <<c0, ce>>, data |-> Some(e.data)]
        ELSE IF g.exc # "none"
        THEN [exc |-> g.exc, calls |-> <<c0, ce, cg>>, data |-> Some(g.data)]
        ELSE IF w.exc # "none"
        THEN [exc |-> w.exc, calls |-> <<c0, ce, cg, cw>>, data |-> Some(w.data)]
        ELSE LET l == RoomsLoop(w.data, 1, boosts, <<c0, ce, cg, cw>>)
             IN  [exc |-> l.exc, calls |-> l.calls, data |-> Some(l.data)]

\* the rooms of a snapshot payload: a room with a temperature sensor and a
\* ventilation rate of 2, and a room whose nominal + offset is 0
SnapshotRoomData ==
    {[sensor |-> <<[type |-> IndoorTemperature, has_parameter |-> TRUE,
                    parameter |-> [k \in {"temperature"} |-> 21]]>>,
      parameter |-> BaseParameter, actuator |-> BaseActuator],
     [sensor |-> << >>,
      parameter |-> [nominal |-> Some(0), offset |-> None],
      actuator |-> BaseActuator]}

BoostInputs ==
    {[o |-> Response(200, "json"), has_keys |-> TRUE],
     [o |-> Response(200, "json"), has_keys |-> FALSE],
     [o |-> Timeout, has_keys |-> TRUE]}

AsyncGetData(o0, rooms_data, oe, n, og, has_fw, ow, boosts) ==
    LET r == GetData(o0, rooms_data, oe, n, og, has_fw, ow, boosts)
    IN  /\ SessionUsed
        /\ data' = r.data
        /\ last' = LastCall("async_get_data", FALSE, r.exc, r.calls)
        /\ UNCHANGED <<api_key, closed, advanced_features, room, reading>>

(***************************************************************************)
(* the rooms property and a derived property of one of its rooms            *)
(***************************************************************************)
\* a rooms property whose rooms are gated by the client's flag at the time of
\* the read instead of the flag they were built with
ReadSnapshotRoomCurrentFlag(i, prop) ==
    /\ data # None
    /\ i \in DOMAIN data[1].rooms
    /\ LET obj == [data[1].rooms[i].obj EXCEPT !.advanced_features = advanced_features]
           res == ReadProperty(obj, prop)
       IN  last' = LastCall("rooms", [room_id |-> i, prop |-> prop, val |-> res.val],
                            res.exc, << >>)
    /\ UNCHANGED <<api_key, session, close_session, closed, advanced_features, data,
                   room, reading>>

\* lines 68-71, then a property of models.py: self._data does not exist
\* before the first snapshot
ReadSnapshotRoom(i, prop) ==
    /\ IF data = None
       THEN last' = LastCall("rooms", [room_id |-> i, prop |-> prop, val |-> None],
                             "AttributeError", << >>)
       ELSE /\ i \in DOMAIN data[1].rooms
            /\ LET res == ReadProperty(data[1].rooms[i].obj, prop)
               IN  last' = LastCall("rooms", [room_id |-> i, prop |-> prop, val |-> res.val],
                                    res.exc, << >>)
    /\ UNCHANGED <<api_key, session, close_session, closed, advanced_features, data,
                   room, reading>>

(***************************************************************************)
(* Spec                                                                     *)
(***************************************************************************)
\* Healthbox3.__init__, lines 24-31, for a client built with or without an
\* API key and with or without a session of the caller
Init ==
    /\ api_key \in {"set", "absent"}
    /\ session \in {"none", "caller"}
    /\ close_session = FALSE
    /\ closed = {}
    /\ advanced_features = FALSE
    /\ data = None
    /\ last = LastCall("__init__", FALSE, "none", << >>)
    /\ room = Healthbox3Room([sensor |-> << >>, parameter |-> BaseParameter,
                              actuator |-> BaseActuator], FALSE)
    /\ reading = None

\* the inputs of one async_enable_advanced_api_features: an input the call
\* does not read (what follows a failed request, a skipped pre-validation or
\* a pre-validation that reported "valid") is fixed
EnableInputs ==
    {x \in [pre_validation : BOOLEAN, o1 : CallOutcomes, s1 : StatusStates,
            o2 : CallOutcomes, o3 : CallOutcomes, s3 : StatusStates] :
        LET ok1 == x.pre_validation /\ RequestExc(x.o1, FALSE) = "none"
            posted == (~x.pre_validation \/ (ok1 /\ x.s1 # "valid"))
                      /\ RequestExc(x.o2, TRUE) = "none"
        IN  /\ ~x.pre_validation => x.o1 = Timeout
            /\ ~ok1 => x.s1 = "invalid"
            /\ ~posted => x.o3 = Timeout
            /\ (x.pre_validation /\ ~(ok1 /\ x.s1 # "valid")) => x.o2 = Timeout
            /\ ~(posted /\ RequestExc(x.o3, FALSE) = "none") => x.s3 = "invalid"}

ErrorListLengths == {2}

\* the inputs of one async_get_data: the outcome of the primary GET and the
\* rooms of its payload, the outcome and the body of each enrichment request,
\* and of each room's boost request; an input the call does not read (what
\* follows the request whose failure ends the call) is fixed
GetDataInputs ==
    {x \in [o0 : CallOutcomes, rooms_data : SeqsUpTo(SnapshotRoomData, MaxRooms),
            oe : FetchOutcomes, n : ErrorListLengths, og : FetchOutcomes,
            has_fw : BOOLEAN, ow : FetchOutcomes,
            boosts : [1..MaxRooms -> BoostInputs]] :
        LET ok0 == RequestExc(x.o0, FALSE) = "none"
            oke == ok0 /\ RequestExc(x.oe, FALSE) = "none"
            okg == oke /\ RequestExc(x.og, FALSE) = "none" /\ x.has_fw
            okw == okg /\ RequestExc(x.ow, FALSE) = "none"
            first == [o |-> Timeout, has_keys |-> TRUE]
            \* room i's boost request is reached
            reached(i) == /\ okw
                          /\ i <= Len(x.rooms_data)
                          /\ \A j \in 1..i :
                                LogRoom(Healthbox3Room(x.rooms_data[j], FALSE)) = "none"
        IN  /\ ~ok0 => x.rooms_data = << >> /\ x.oe = Timeout
            /\ ~oke => x.og = Timeout
            /\ (oke /\ RequestExc(x.og, FALSE) # "none") => ~x.has_fw
            /\ ~okg => x.ow = Timeout
            /\ \A i \in 1..MaxRooms : ~reached(i) => x.boosts[i] = first}

\* the inputs of one direct request(): a method and endpoint of the device's
\* API and an outcome; expect_json_error, read only for a response that is
\* no error, is fixed otherwise
RequestInputs ==
    {x \in [call : {<<"GET", CurrentEp>>, <<"PUT", BoostEp>>, <<"POST", ApiKeyEp>>},
            o : Outcomes, expect_json_error : BOOLEAN] :
        x.expect_json_error => (x.o.kind = "response" /\ x.o.status < 400)}

Next ==
    \/ \E x \in RequestInputs : Request(x.call[1], x.call[2], x.o, x.expect_json_error)
    \/ Close
    \/ \E room_id \in {1}, o \in CallOutcomes : AsyncStartRoomBoost(room_id, o)
    \/ \E room_id \in {1}, o \in CallOutcomes : AsyncStopRoomBoost(room_id, o)
    \/ \E o \in CallOutcomes : AsyncValidateConnectivity(o)
    \/ \E room_id \in {1}, o \in CallOutcomes, has_keys \in BOOLEAN :
            AsyncGetRoomBoostData(room_id, o, has_keys)
    \/ \E x \in EnableInputs :
            AsyncEnableAdvancedApiFeatures(x.pre_validation, x.o1, x.s1, x.o2, x.o3, x.s3)
    \/ \E x \in GetDataInputs :
            AsyncGetData(x.o0, x.rooms_data, x.oe, x.n, x.og, x.has_fw, x.ow, x.boosts)
    \/ \E i \in 1..MaxRooms, prop \in Props : ReadSnapshotRoom(i, prop)

Spec == Init /\ [][Next]_vars

(***************************************************************************)
(* SpecRoom                                                                 *)
(***************************************************************************)
RoomInit ==
    /\ \E d \in RoomData, adv \in BOOLEAN : room = Healthbox3Room(d, adv)
    /\ reading = None

ReadRoom(prop) ==
    /\ reading' = Some([prop |-> prop, res |-> ReadProperty(room, prop)])
    /\ UNCHANGED room
    /\ UNCHANGED clientVars

InitRoom ==
    /\ RoomInit
    /\ api_key = "absent"
    /\ session = "none"
    /\ close_session = FALSE
    /\ closed = {}
    /\ advanced_features = FALSE
    /\ data = None
    /\ last = LastCall("__init__", FALSE, "none", << >>)

NextRoom == \E prop \in Props : ReadRoom(prop)

SpecRoom == InitRoom /\ [][NextRoom]_vars

(***************************************************************************)
(* Properties of the client (checked under Spec)                            *)
(***************************************************************************)
IsEnable == last.op = "async_enable_advanced_api_features"

IsGetData == last.op = "async_get_data"

LastRequest == last.calls[Len(last.calls)]

\* the rooms of the snapshot can be logged without an exception
LoggableRooms ==
    /\ data # None
    /\ \A i \in DOMAIN data[1].rooms : LogRoom(data[1].rooms[i].obj) = "none"

\* C1: whenever the primary GET of async_get_data succeeds with a well-formed
\* payload, async_get_data returns without raising whatever the error-list,
\* core-info, Wi-Fi and boost requests do, and each field whose request
\* failed has its default (error_count 0, firmware_version unset, a default
\* boost on the room).
C1_BestEffortEnrichment ==
    (IsGetData /\ last.calls[1].exc = "none" /\ LoggableRooms) =>
        /\ last.exc = "none"
        /\ Len(last.calls) = 4 + Len(data[1].rooms)
        /\ last.calls[2].exc # "none" => data[1].error_count = Some(0)
        /\ last.calls[3].exc # "none" => data[1].firmware_version = None
        /\ \A i \in DOMAIN data[1].rooms :
              last.calls[4 + i].exc # "none" => data[1].rooms[i].boost = DefaultBoost

\* C2: request() classifies every outcome: 401/403 is an authentication
\* error, a timeout a communication error, any other non-2xx status and any
\* transport failure a generic API error, a 2xx response returns the body,
\* and no other kind of error leaves request().
C2_ErrorClassification ==
    last.op = "request" =>
        LET c == last.calls[1]
            o == c.outcome
        IN  /\ last.exc \in {"none", AuthenticationError, CommunicationError, ApiClientError}
            /\ c.sent =>
                /\ (o.kind = "response" /\ o.status \in {401, 403}) =>
                        last.exc = AuthenticationError
                /\ o.kind = "timeout" => last.exc = CommunicationError
                /\ (o.kind = "response" /\ o.status \notin 200..299
                        /\ o.status \notin {401, 403}) => last.exc = ApiClientError
                /\ o.kind = "ClientError" => last.exc = ApiClientError
                /\ (o.kind = "response" /\ o.status \in 200..299) => last.exc = "none"

\* C3: without an API key, async_enable_advanced_api_features fails with an
\* authentication error and issues no HTTP request.
C3_NoKeyAuthenticationError ==
    (IsEnable /\ api_key = "absent") =>
        /\ last.exc = AuthenticationError
        /\ \A i \in DOMAIN last.calls : ~last.calls[i].sent

\* C4: a session of the caller is never closed by the client, a session the
\* client created is closed by close(), and the ownership flag is true
\* exactly when the current session was created by the client.
C4_SessionOwnership ==
    /\ "caller" \notin closed
    /\ close_session <=> session = "own"
    /\ (last.op = "close" /\ session = "own") => "own" \in closed

C4_Witness == last.op = "close" /\ session = "own" /\ close_session /\ "own" \in closed

\* the POSTs of the key and the status checks sent by the last call
KeyPosts ==
    {i \in DOMAIN last.calls :
        last.calls[i].sent /\ last.calls[i].method = "POST"
        /\ last.calls[i].endpoint = ApiKeyEp}

StatusGets ==
    {i \in DOMAIN last.calls :
        last.calls[i].sent /\ last.calls[i].method = "GET"
        /\ last.calls[i].endpoint = StatusEp}

\* the call pre-validated and the status endpoint reported "valid"
PreValidated ==
    /\ last.arg
    /\ Len(last.calls) >= 1
    /\ last.calls[1].endpoint = StatusEp
    /\ last.calls[1].state = "valid"

\* the handshake as C5 states it
Handshake ==
    IF PreValidated
    THEN KeyPosts = {} /\ last.exc = "none"
    ELSE /\ Cardinality(KeyPosts) = 1
         /\ \A p \in KeyPosts :
              LET after == {g \in StatusGets : g > p}
              IN  /\ Cardinality(after) = 1
                  /\ \A g \in after :
                       IF last.calls[g].state = "valid"
                       THEN last.exc = "none" /\ advanced_features
                       ELSE last.exc = AuthenticationError

C6_ClosedBeforeAuthError_Original ==
    (IsEnable /\ last.exc = AuthenticationError) => session \in closed

\* the call ended because the status check after the POST did not report "valid"
RevalidationRefused ==
    /\ IsEnable /\ last.exc = AuthenticationError
    /\ Len(last.calls) >= 2
    /\ LastRequest.endpoint = StatusEp
    /\ LastRequest.exc = "none"

\* C6 amended: when the call ends with an authentication error because the
\* status check after the POST did not report "valid", close() has run: a
\* session the client created is closed, a session of the caller is not.
C6_ClosedBeforeAuthError ==
    RevalidationRefused =>
        /\ session = "own" => "own" \in closed
        /\ session = "caller" => "caller" \notin closed

C6_Witness == RevalidationRefused /\ session = "own" /\ "own" \in closed

\* C10: the elevated-privilege flag starts false and, once true, stays true
\* in every later state.
C10_FlagMonotonic ==
    /\ ~advanced_features
    /\ [][advanced_features => advanced_features']_vars

\* the flag is true after a call whose status check reported another state
\* than "valid" and that ended with an authentication error
C10_Witness == advanced_features /\ RevalidationRefused /\ LastRequest.state = "invalid"

\* the step read a derived property of a room of the snapshot
IsRoomRead == last.op = "rooms" /\ data # None

\* the room of the snapshot that the last read was about
ReadRoomObj == data[1].rooms[last.arg.room_id].obj

\* C11: the rooms of a snapshot are gated by the flag as it was when
\* async_get_data built them: only async_get_data replaces the snapshot, it
\* builds every room with the client's flag of that moment, and an indoor
\* reading of a room built while the flag was false is unset whatever the
\* client's flag has become since.
C11_SnapshotFlag ==
    [][/\ (last'.op # "async_get_data" => data' = data)
       /\ (data' # data =>
             /\ advanced_features' = advanced_features
             /\ \A i \in DOMAIN data'[1].rooms :
                  data'[1].rooms[i].obj.advanced_features = advanced_features)
       /\ (/\ last'.op = "rooms"
           /\ data # None
           /\ last'.arg.prop \in Props \ {"airflow_ventilation_rate"}
           /\ ~data[1].rooms[last'.arg.room_id].obj.advanced_features)
             => (last'.exc = "none" /\ last'.arg.val = None)]_vars

\* a room fetched while the flag was false, with a temperature sensor that
\* reports 21, is read after the flag became true, and the reading is unset
C11_Witness ==
    /\ IsRoomRead
    /\ advanced_features
    /\ ~ReadRoomObj.advanced_features
    /\ InSeq(IndoorTemperature, ReadRoomObj.enabled_sensors)
    /\ last.arg.prop = "indoor_temperature"
    /\ last.arg.val = None

(***************************************************************************)
(* Properties of the room computations (checked under SpecRoom)             *)
(***************************************************************************)
HasRead(prop) == reading # None /\ reading[1].prop = prop

Result == reading[1].res

\* nominal + offset of the room is not 0
NonZeroDenominator ==
    LET p == room.parameters
    IN  p.nominal # None =>
            p.nominal[1] + (IF p.offset = None THEN 0 ELSE p.offset[1]) # 0

\* C7 as stated: with advanced features disabled every derived reading,
\* airflow_ventilation_rate included, is unset (stated for the rooms whose
\* nominal + offset is not 0, where no reading raises).
C7_DisabledUnset_Original ==
    (reading # None /\ ~room.advanced_features /\ NonZeroDenominator) =>
        Result = Ret(None)

\* C7 amended: with advanced features disabled each of the six indoor sensor
\* readings is unset, whatever the payload.
C7_DisabledUnset ==
    (reading # None /\ ~room.advanced_features
        /\ reading[1].prop # "airflow_ventilation_rate") => Result = Ret(None)

\* a disabled room whose payload holds a temperature value
C7_Witness ==
    /\ HasRead("indoor_temperature") /\ ~room.advanced_features
    /\ Len(room.sensors_data) = 1
    /\ room.sensors_data[1].type = IndoorTemperature
    /\ room.sensors_data[1].has_parameter
    /\ "temperature" \in DOMAIN room.sensors_data[1].parameter
    /\ Result = Ret(None)

\* the value a sensor record carries under key, None if it carries none
Carried(sensor, key) ==
    IF sensor.has_parameter /\ key \in DOMAIN sensor.parameter
    THEN Some(sensor.parameter[key])
    ELSE None

\* the first record of sensors_data whose type is t
FirstOfType(t) ==
    room.sensors_data[CHOOSE i \in DOMAIN room.sensors_data :
        /\ room.sensors_data[i].type = t
        /\ \A j \in 1..(i - 1) : room.sensors_data[j].type # t]

\* the first record of sensors_data whose type contains t
FirstContaining(t) ==
    room.sensors_data[CHOOSE i \in DOMAIN room.sensors_data :
        /\ IsSubstring(t, room.sensors_data[i].type)
        /\ \A j \in 1..(i - 1) : ~IsSubstring(t, room.sensors_data[j].type)]

C9_AirflowVentilationRate ==
    LET p == room.parameters
        off == IF p.offset = None THEN 0 ELSE p.offset[1]
        valves == {i \in DOMAIN room.actuator : room.actuator[i].type = "air valve"}
        first == CHOOSE i \in valves : \A j \in valves : i <= j
    IN  (HasRead("airflow_ventilation_rate")
            /\ (p.nominal # None => p.nominal[1] + off # 0)) =>
            /\ Result.exc = "none"
            /\ IF p.nominal = None \/ valves = {} \/ room.actuator[first].flow_rate = None
               THEN Result.val = None
               ELSE /\ Result.val # None
                    /\ Result.val[1].den > 0
                    /\ Result.val[1].num * (p.nominal[1] + off)
                         = room.actuator[first].flow_rate[1] * Result.val[1].den

\* nominal 2, offset 1, flow_rate 6 gives 2
C9_Witness ==
    /\ HasRead("airflow_ventilation_rate")
    /\ room.parameters = [nominal |-> Some(2), offset |-> Some(1)]
    /\ Len(room.actuator) = 2
    /\ room.actuator[1] = [type |-> "fan", flow_rate |-> Some(3)]
    /\ room.actuator[2] = [type |-> "air valve", flow_rate |-> Some(6)]
    /\ Result = Ret(Some([num |-> 2, den |-> 1]))

=============================================================================
